---- MODULE Spec2Model ----
(***************************************************************************)
(* Model of ismrmrdtools/coils.py: noise prewhitening                      *)
(* (calculate_prewhitening, apply_prewhitening), coil sensitivity          *)
(* estimation by the iterative Walsh method (calculate_csm_walsh) and the  *)
(* box smoothing helper (smooth).                                          *)
(*                                                                         *)
(* Numbers.  The code computes in complex floating point.  The model       *)
(* computes in exact arithmetic over the numbers (re + i*im)/den*sqrt(rad) *)
(* (Gaussian rationals times the square root of a square-free positive     *)
(* integer), which is closed under every operation the code applies to the *)
(* inputs drawn here: sums, products, conjugates, quotients, and the       *)
(* square root of a non-negative rational.  An exact zero of the model is  *)
(* an exact zero of the code for the dyadic inputs of the concrete         *)
(* scenarios.  NaN is a value of its own, produced by 0/0 and propagated   *)
(* by every operation, as in IEEE arithmetic.                              *)
(*                                                                         *)
(* Rounding is modelled where it decides the control flow: the pivot of    *)
(* the Cholesky factorization whose exact value is zero.  The code         *)
(* computes it from the rounded square root of an earlier pivot, so it is  *)
(* a small positive or negative number, and the factorization succeeds or  *)
(* fails accordingly.  A float that is such a rounding residue, or is      *)
(* computed from one, is the value Inexact.                                *)
(***************************************************************************)
EXTENDS Integers, Sequences, FiniteSets, TLC

(***************************************************************************)
(* Integer helpers                                                         *)
(***************************************************************************)
Abs(n) == IF n < 0 THEN -n ELSE n

RECURSIVE Gcd(_, _)
Gcd(a, b) == IF b = 0 THEN a ELSE Gcd(b, a % b)

\* The integer square root, by bisection on lo..hi (lo*lo <= n < (hi+1)*(hi+1)).
RECURSIVE IsqrtIn(_, _, _)
IsqrtIn(n, lo, hi) ==
    IF lo >= hi THEN lo
    ELSE LET mid == (lo + hi + 1) \div 2
         IN  IF mid * mid <= n THEN IsqrtIn(n, mid, hi) ELSE IsqrtIn(n, lo, mid - 1)

Isqrt(n) == IsqrtIn(n, 0, IF n < 46340 THEN n ELSE 46340)

\* The largest j with j*j dividing n (n > 0).
SquarePart(n) ==
    IF n < 4 THEN 1
    ELSE LET S == {j \in 1..Isqrt(n) : n % (j * j) = 0}
         IN  CHOOSE j \in S : \A i \in S : i <= j

(***************************************************************************)
(* Numbers: [re, im, den, rad] stands for (re + i*im)/den * sqrt(rad),     *)
(* den > 0, rad > 0 square-free, gcd(re, im, den) = 1.  den = 0 is NaN.    *)
(* den = -1 marks a value outside the number system (never produced on     *)
(* the inputs drawn; NumbersRepresentable checks it).  den = -2 is a       *)
(* finite float that holds rounding error only or is derived from one that *)
(* does: its value is not a number of the exact system.                    *)
(***************************************************************************)
NaN == [re |-> 0, im |-> 0, den |-> 0, rad |-> 0]

Unrep == [re |-> 0, im |-> 0, den |-> -1, rad |-> 0]

Zero == [re |-> 0, im |-> 0, den |-> 1, rad |-> 1]

IsNaN(a) == a.den = 0

IsUnrep(a) == a.den = -1

Inexact == [re |-> 0, im |-> 0, den |-> -2, rad |-> 0]

IsInexact(a) == a.den = -2

IsZero(a) == a.den > 0 /\ a.re = 0 /\ a.im = 0

\* Canonical form of (re + i*im)/den * sqrt(rad) for den > 0, rad > 0.
Canon(re, im, den, rad) ==
    IF re = 0 /\ im = 0 THEN Zero
    ELSE LET k  == SquarePart(rad)
             r2 == re * k
             i2 == im * k
             g  == Gcd(Gcd(Abs(r2), Abs(i2)), den)
         IN  [re |-> r2 \div g, im |-> i2 \div g, den |-> den \div g,
              rad |-> rad \div (k * k)]

\* A Python int or a Gaussian integer as a number.
Cplx(re, im) == Canon(re, im, 1, 1)

Rat(n, d) == Canon(n, 0, d, 1)

SConj(a) == IF a.den <= 0 THEN a ELSE [a EXCEPT !.im = -a.im]

SNeg(a) == IF a.den <= 0 THEN a ELSE [a EXCEPT !.re = -a.re, !.im = -a.im]

SAdd(a, b) ==
    IF IsUnrep(a) \/ IsUnrep(b) THEN Unrep
    ELSE IF IsNaN(a) \/ IsNaN(b) THEN NaN
    ELSE IF IsZero(a) THEN b
    ELSE IF IsZero(b) THEN a
    ELSE IF IsInexact(a) \/ IsInexact(b) THEN Inexact
    ELSE IF a.rad # b.rad THEN Unrep
    ELSE LET g == Gcd(a.den, b.den)
         IN  Canon(a.re * (b.den \div g) + b.re * (a.den \div g),
                   a.im * (b.den \div g) + b.im * (a.den \div g),
                   (a.den \div g) * b.den, a.rad)

SMul(a, b) ==
    IF IsUnrep(a) \/ IsUnrep(b) THEN Unrep
    ELSE IF IsNaN(a) \/ IsNaN(b) THEN NaN
    ELSE IF IsZero(a) \/ IsZero(b) THEN Zero
    ELSE IF IsInexact(a) \/ IsInexact(b) THEN Inexact
    ELSE LET g  == Gcd(a.rad, b.rad)
             \* sqrt(ra)*sqrt(rb) = g*sqrt((ra/g)*(rb/g)) for square-free ra, rb
             re == (a.re * b.re - a.im * b.im) * g
             im == (a.re * b.im + a.im * b.re) * g
         IN  Canon(re, im, a.den * b.den, (a.rad \div g) * (b.rad \div g))

\* 1/b for b neither zero nor NaN.
SInv(b) == Canon(b.den * b.re, -(b.den * b.im),
                 (b.re * b.re + b.im * b.im) * b.rad, b.rad)

\* a / b with IEEE semantics: 0/0 and NaN operands give NaN.  x/0 for x # 0
\* (infinity) is outside the number system.  An Inexact divisor is a pivot
\* of the factorization, which is not zero.
SDiv(a, b) ==
    IF IsUnrep(a) \/ IsUnrep(b) THEN Unrep
    ELSE IF IsNaN(a) \/ IsNaN(b) THEN NaN
    ELSE IF IsZero(b) THEN (IF IsZero(a) THEN NaN ELSE Unrep)
    ELSE IF IsZero(a) THEN Zero
    ELSE IF IsInexact(a) \/ IsInexact(b) THEN Inexact
    ELSE SMul(a, SInv(b))

\* |a|^2 = a * conj(a)
SAbs2(a) == SMul(a, SConj(a))

\* Square root of a non-negative rational.
SSqrt(a) ==
    IF IsUnrep(a) THEN Unrep
    ELSE IF IsNaN(a) THEN NaN
    ELSE IF IsZero(a) THEN Zero
    ELSE IF IsInexact(a) THEN Inexact
    ELSE IF a.im # 0 \/ a.rad # 1 THEN Unrep
    ELSE IF a.re < 0 THEN NaN
    ELSE Canon(1, 0, a.den, a.re * a.den)

RECURSIVE SSum(_, _)
\* Sum of f[k] over k in the finite set S.
SSum(f, S) ==
    IF S = {} THEN Zero
    ELSE LET k == CHOOSE j \in S : TRUE
         IN  SAdd(f[k], SSum(f, S \ {k}))

\* Mutation of Norm: the square root is left out.
NormSquared(v) == SSum([c \in DOMAIN v |-> SAbs2(v[c])], DOMAIN v)

\* np.linalg.norm of a vector (a function from indices to numbers).
Norm(v) == SSqrt(SSum([c \in DOMAIN v |-> SAbs2(v[c])], DOMAIN v))

\* img.real and img.imag
SReal(a) == IF a.den <= 0 THEN a ELSE Canon(a.re, 0, a.den, a.rad)

SImag(a) == IF a.den <= 0 THEN a ELSE Canon(a.im, 0, a.den, a.rad)

ImagUnit == Cplx(0, 1)

(***************************************************************************)
(* Arrays: [shape |-> <<n1, ..., nk>>, data |-> [index tuples -> numbers]] *)
(* with 0-based index tuples, as numpy.                                    *)
(***************************************************************************)
RECURSIVE SeqMax(_)
SeqMax(s) == IF s = <<>> THEN 0
             ELSE LET m == SeqMax(Tail(s)) IN IF Head(s) > m THEN Head(s) ELSE m

RECURSIVE SeqProd(_)
SeqProd(s) == IF s = <<>> THEN 1 ELSE Head(s) * SeqProd(Tail(s))

Indices(shape) ==
    {s \in [1..Len(shape) -> 0..(SeqMax(shape) - 1)] :
        \A a \in 1..Len(shape) : s[a] < shape[a]}

Array(shape, f(_)) == [shape |-> shape, data |-> [idx \in Indices(shape) |-> f(idx)]]

\* np.zeros(shape)
Zeros(shape) == Array(shape, LAMBDA idx : Zero)

(***************************************************************************)
(* scipy.ndimage.uniform_filter(input, size, output, mode='reflect'):      *)
(* one uniform_filter1d pass along every axis, in axis order, skipped      *)
(* altogether when size <= 1.  A pass replaces each element by the mean    *)
(* of the size elements at offsets -(size \div 2) .. size - size \div 2 - 1*)
(* along the axis; indices outside the array are reflected about the       *)
(* edge, the edge element included (d c b a | a b c d | d c b a).          *)
(***************************************************************************)
Reflect(j, n) == LET m == j % (2 * n) IN IF m < n THEN m ELSE 2 * n - 1 - m

WindowLo(size) == size \div 2

UniformFilter1d(arr, size, axis) ==
    Array(arr.shape,
          LAMBDA idx :
            SDiv(SSum([k \in 0..(size - 1) |->
                         arr.data[[idx EXCEPT ![axis] =
                             Reflect(idx[axis] - WindowLo(size) + k,
                                     arr.shape[axis])]]],
                      0..(size - 1)),
                 Cplx(size, 0)))

RECURSIVE UniformFilterFrom(_, _, _)
UniformFilterFrom(arr, size, axis) ==
    IF axis > Len(arr.shape) THEN arr
    ELSE UniformFilterFrom(UniformFilter1d(arr, size, axis), size, axis + 1)

UniformFilter(arr, size) ==
    IF size > 1 THEN UniformFilterFrom(arr, size, 1) ELSE arr

(***************************************************************************)
(* smooth(img, box): lines 100-108.  The real and the imaginary part are   *)
(* filtered separately into fresh arrays and recombined.                   *)
(***************************************************************************)
\* Mutation of smooth: the imaginary unit is left out of the recombination.
smoothWithoutUnit(arr, box) ==
    LET t_real == UniformFilter(Array(arr.shape, LAMBDA idx : SReal(arr.data[idx])), box)
        t_imag == UniformFilter(Array(arr.shape, LAMBDA idx : SImag(arr.data[idx])), box)
    IN  Array(arr.shape, LAMBDA idx : SAdd(t_real.data[idx], t_imag.data[idx]))

smooth(arr, box) ==
    LET t_real == UniformFilter(Array(arr.shape, LAMBDA idx : SReal(arr.data[idx])), box)
        t_imag == UniformFilter(Array(arr.shape, LAMBDA idx : SImag(arr.data[idx])), box)
    IN  Array(arr.shape,
              LAMBDA idx : SAdd(t_real.data[idx], SMul(ImagUnit, t_imag.data[idx])))

(***************************************************************************)
(* Matrices and vectors of calculate_csm_walsh, 0-based.                   *)
(***************************************************************************)
Coils(n) == 0..(n - 1)

\* R = Rs[:,:,y,x]
LocalMatrix(Rs4, n, yy, xx) ==
    [a \in Coils(n), b \in Coils(n) |-> Rs4.data[<<a, b, yy, xx>>]]

\* np.sum(R, axis=0): entry b is the sum over the first index a of R[a,b].
SumAxis0(Rm, n) ==
    [b \in Coils(n) |-> SSum([a \in Coils(n) |-> Rm[a, b]], Coils(n))]

\* np.dot(R, v): entry a is the sum over b of R[a,b]*v[b].
Dot(Rm, vec, n) ==
    [a \in Coils(n) |-> SSum([b \in Coils(n) |-> SMul(Rm[a, b], vec[b])], Coils(n))]

\* v / lam, elementwise
VecDiv(vec, l) == [c \in DOMAIN vec |-> SDiv(vec[c], l)]

\* The 2-D plane arr[p,q,:,:] of a 4-D array, and its assignment.
Plane(Rs4, pp, qq) ==
    Array(<<Rs4.shape[3], Rs4.shape[4]>>,
          LAMBDA idx : Rs4.data[<<pp, qq, idx[1], idx[2]>>])

SetPlane(Rs4, pp, qq, pl) ==
    [Rs4 EXCEPT !.data =
        [idx \in DOMAIN Rs4.data |->
            IF idx[1] = pp /\ idx[2] = qq THEN pl.data[<<idx[3], idx[4]>>]
            ELSE Rs4.data[idx]]]

\* Mutation of CovPlane: the conjugate is left out.
CovPlaneWithoutConj(im, pp, qq) ==
    Array(<<im.shape[2], im.shape[3]>>,
          LAMBDA idx : SMul(im.data[<<pp, idx[1], idx[2]>>],
                            im.data[<<qq, idx[1], idx[2]>>]))

\* img[p,:,:] * np.conj(img[q,:,:])
CovPlane(im, pp, qq) ==
    Array(<<im.shape[2], im.shape[3]>>,
          LAMBDA idx : SMul(im.data[<<pp, idx[1], idx[2]>>],
                            SConj(im.data[<<qq, idx[1], idx[2]>>])))

(***************************************************************************)
(* Matrices of the prewhitening functions: 2-D arrays.                     *)
(***************************************************************************)
\* The index tuple of flat position m in an array of the given dimensions,
\* in row-major (C) order, as numpy's reshape reads and writes.
RECURSIVE Unravel(_, _)
Unravel(m, dims) ==
    IF dims = <<>> THEN <<>>
    ELSE LET rest == SeqProd(Tail(dims))
         IN  <<m \div rest>> \o Unravel(m % rest, Tail(dims))

RECURSIVE Ravel(_, _)
Ravel(idx, dims) ==
    IF dims = <<>> THEN 0
    ELSE Head(idx) * SeqProd(Tail(dims)) + Ravel(Tail(idx), Tail(dims))

\* arr.reshape(shape), for a shape with as many elements as arr.
Reshape(arr, shape) ==
    Array(shape, LAMBDA idx : arr.data[Unravel(Ravel(idx, shape), arr.shape)])

\* np.asmatrix(a) * np.asmatrix(b)
MatMul(a, b) ==
    Array(<<a.shape[1], b.shape[2]>>,
          LAMBDA idx : SSum([k \in 0..(a.shape[2] - 1) |->
                               SMul(a.data[<<idx[1], k>>], b.data[<<k, idx[2]>>])],
                            0..(a.shape[2] - 1)))

\* np.asmatrix(a).H
Hermitian(a) ==
    Array(<<a.shape[2], a.shape[1]>>, LAMBDA idx : SConj(a.data[<<idx[2], idx[1]>>]))

\* c * a for a scalar c
MatScale(c, a) == Array(a.shape, LAMBDA idx : SMul(c, a.data[idx]))

\* line 22: (1/(M-1)) * N * N.H for M > 1 samples
SampleCovariance(N2) ==
    MatScale(Rat(1, N2.shape[2] - 1), MatMul(N2, Hermitian(N2)))

\* IEEE double precision, round to nearest: the computed square root of x
\* lies above the exact one for x = 1/2 and x = 2, below it for x = 3/2
\* (sqrt(2) = 1.41421356237309504..., computed 1.4142135623730951;
\* sqrt(3/2) = 1.22474487139158904..., computed 1.2247448713915889).
SqrtRoundedUp == {Rat(1, 2), Cplx(2, 0)}

SqrtRoundedDown == {Rat(3, 2)}

\* np.linalg.cholesky(A): the lower-triangular L with A = L * L.H, computed
\* from the lower triangle of A row by row, as LAPACK does in floating
\* point.  A pivot whose exact square A[j,j] - sum |L[j,k]|^2 is zero is
\* computed from the rounded entries L[j,k] = (...)/L[k,k]: where the
\* square roots L[k,k] are rounded up, the entries are too small and the
\* computed square is a small positive number; where they are rounded down
\* it is negative and the square root is not taken.  With exact entries the
\* computed square is exactly zero.
RECURSIVE CholEntry(_, _, _)
CholEntry(A, i, j) ==
    LET acc == SSum([k \in 0..(j - 1) |->
                       SMul(CholEntry(A, i, k), SConj(CholEntry(A, j, k)))],
                    0..(j - 1))
        rem == SAdd(A.data[<<i, j>>], SNeg(acc))
        rounded == {k \in 0..(j - 1) : /\ ~IsZero(CholEntry(A, i, k))
                                       /\ CholEntry(A, k, k).rad # 1}
    IN  IF i < j THEN Zero
        ELSE IF i = j
        THEN IF IsZero(SReal(rem)) /\ rounded # {}
             THEN IF \A k \in rounded : SAbs2(CholEntry(A, k, k)) \in SqrtRoundedUp
                  THEN Inexact
                  ELSE IF \A k \in rounded :
                             SAbs2(CholEntry(A, k, k)) \in SqrtRoundedDown
                  THEN NaN
                  ELSE Unrep
             ELSE SSqrt(SReal(rem))
        ELSE SDiv(rem, CholEntry(A, j, j))

Cholesky(A) == Array(A.shape, LAMBDA idx : CholEntry(A, idx[1], idx[2]))

\* The factorization succeeds iff every computed pivot is positive; LAPACK
\* reports the first pivot that is not, and numpy raises LinAlgError.
PositiveDefinite(A) ==
    \A j \in 0..(A.shape[1] - 1) :
        LET d == CholEntry(A, j, j) IN IsInexact(d) \/ (d.den > 0 /\ d.re > 0)

\* np.linalg.inv(L) for a lower-triangular L with non-zero diagonal.
RECURSIVE InvEntry(_, _, _)
InvEntry(L, i, j) ==
    IF i < j THEN Zero
    ELSE IF i = j THEN SDiv(Cplx(1, 0), L.data[<<i, i>>])
    ELSE SDiv(SNeg(SSum([k \in j..(i - 1) |->
                           SMul(L.data[<<i, k>>], InvEntry(L, k, j))],
                        j..(i - 1))),
              L.data[<<i, i>>])

Inverse(L) == Array(L.shape, LAMBDA idx : InvEntry(L, idx[1], idx[2]))

Identity(n) == Array(<<n, n>>, LAMBDA idx : IF idx[1] = idx[2] THEN Cplx(1, 0) ELSE Zero)

(***************************************************************************)
(* Inputs.                                                                 *)
(***************************************************************************)
DefaultSmoothing == 5

DefaultNiter == 3

MaxIter == 3

MaxCalls == 2

MaxScale == 2

PixelValues == {Cplx(0, 0), Cplx(1, 0), Cplx(0, 1), Cplx(-1, 0)}

MagnitudeValues == {Cplx(0, 0), Cplx(1, 0), Cplx(1, 1)}

Windows == {1, 3, DefaultSmoothing}

Arrays(shape, vals) ==
    {[shape |-> shape, data |-> d] : d \in [Indices(shape) -> vals]}

\* Stacks whose every coil image is constant over the pixels.
ConstantStacks(shape, vals) ==
    {Array(shape, LAMBDA idx : c[idx[1]]) : c \in [Coils(shape[1]) -> vals]}

\* Stacks whose smoothed covariance matrices have rank at most 1.
RankOneStacks ==
    Arrays(<<1, 1, 2>>, PixelValues \cup MagnitudeValues)
      \cup Arrays(<<1, 2, 2>>, MagnitudeValues)
      \cup ConstantStacks(<<2, 2, 2>>, PixelValues)
      \cup ConstantStacks(<<2, 4, 4>>, PixelValues)

MixedStacks == Arrays(<<2, 1, 2>>, PixelValues)

CoilStacks == RankOneStacks \cup MixedStacks

\* The exact value of the power estimate of a smoothed rank-2 covariance
\* matrix outgrows TLC's 32-bit integers at the second power iteration:
\* those stacks are smoothed with at most one iteration, or iterated
\* unsmoothed.
WithinIntegers(im, box, n) == im \in RankOneStacks \/ box = 1 \/ n <= 1

\* Inputs of the wrong rank.
BadRankStacks == Arrays(<<1, 2>>, PixelValues) \cup Arrays(<<1, 1, 1, 2>>, PixelValues)

SmoothInputs ==
    Arrays(<<2, 2>>, PixelValues) \cup Arrays(<<1, 3>>, PixelValues)
      \cup Arrays(<<2, 1, 2>>, PixelValues)

NoiseValues == {Cplx(0, 0), Cplx(1, 0), Cplx(0, 1)}

NoiseArrays ==
    Arrays(<<1, 1>>, PixelValues) \cup Arrays(<<2, 1>>, PixelValues)
      \cup Arrays(<<1, 3>>, PixelValues) \cup Arrays(<<2, 2>>, PixelValues)
      \cup Arrays(<<2, 3>>, NoiseValues) \cup Arrays(<<2, 2, 1>>, PixelValues)

ApplyData == Arrays(<<1, 2>>, PixelValues) \cup Arrays(<<2, 1, 1>>, PixelValues)

ApplyMatrices == {Identity(1), Identity(2)}

NoNumber == Zero

NoArray == [shape |-> <<>>, data |-> <<>>]

NoVector == <<>>

VARIABLES
    fn,            \* the function called
    trueDiv,       \* whether int / int is true division (Python 3) or floor division (Python 2)
    img,           \* argument img of calculate_csm_walsh and smooth
    smoothing,     \* argument smoothing / box
    niter,         \* argument niter
    noise,         \* argument noise of calculate_prewhitening, data of apply_prewhitening
    scale_factor,  \* argument scale_factor
    pc,            \* position in the function
    err,           \* the exception raised, "" while none
    Rs, p, q,      \* covariance field and the coil loop counters
    y, x, iter,    \* pixel loop counters and power iteration counter
    R, v, lam,     \* locals of the pixel loop
    rho, csm,      \* outputs of calculate_csm_walsh
    noise_int, dmtx, wdata,   \* locals and outputs of the prewhitening functions
    sarg, simg, calls         \* smooth: argument of the last call, its result, calls made

inputs == <<fn, trueDiv, img, smoothing, niter, noise, scale_factor>>

csmVars == <<Rs, p, q, y, x, iter, R, v, lam, rho, csm>>

pwVars == <<noise_int, dmtx, wdata>>

smVars == <<sarg, simg, calls>>

vars == <<inputs, pc, err, csmVars, pwVars, smVars>>

ncoils == img.shape[1]

ny == img.shape[2]

nx == img.shape[3]

InitLocals ==
    /\ pc = "start" /\ err = ""
    /\ Rs = NoArray /\ p = 0 /\ q = 0 /\ y = 0 /\ x = 0 /\ iter = 0
    /\ R = NoVector /\ v = NoVector /\ lam = NoNumber
    /\ rho = NoArray /\ csm = NoArray
    /\ noise_int = NoArray /\ dmtx = NoArray /\ wdata = NoArray
    /\ sarg = NoArray /\ simg = NoArray /\ calls = 0

InitCsm ==
    /\ fn = "calculate_csm_walsh"
    /\ trueDiv = FALSE
    /\ img \in CoilStacks \cup BadRankStacks
    /\ smoothing \in Windows
    /\ niter \in 0..MaxIter
    /\ img \in BadRankStacks \/ WithinIntegers(img, smoothing, niter)
    /\ noise = NoArray /\ scale_factor = 1

InitSmooth ==
    /\ fn = "smooth"
    /\ trueDiv = FALSE
    /\ img \in SmoothInputs
    /\ smoothing \in Windows \cup {2}
    /\ niter = 0
    /\ noise = NoArray /\ scale_factor = 1

(***************************************************************************)
(* calculate_csm_walsh                                                     *)
(***************************************************************************)
\* Mutation of CheckRank: any rank of at least 3 is let through.
CheckRankAtLeast ==
    /\ fn = "calculate_csm_walsh" /\ pc = "start"
    /\ IF Len(img.shape) >= 3
       THEN /\ pc' = "cov"
            /\ Rs' = Zeros(<<ncoils, ncoils, ny, nx>>)
            /\ err' = err
       ELSE /\ pc' = "raised"
            /\ err' = "AssertionError"
            /\ Rs' = Rs
    /\ UNCHANGED <<inputs, p, q, y, x, iter, R, v, lam, rho, csm, pwVars, smVars>>

\* line 51: assert img.ndim == 3; lines 53-58.
CheckRank ==
    /\ fn = "calculate_csm_walsh" /\ pc = "start"
    /\ IF Len(img.shape) = 3
       THEN /\ pc' = "cov"
            /\ Rs' = Zeros(<<ncoils, ncoils, ny, nx>>)
            /\ err' = err
       ELSE /\ pc' = "raised"
            /\ err' = "AssertionError"
            /\ Rs' = Rs
    /\ UNCHANGED <<inputs, p, q, y, x, iter, R, v, lam, rho, csm, pwVars, smVars>>

\* The loop counters after one pass of the body of "for p: for q:".
NextP == IF q + 1 < ncoils THEN p ELSE p + 1

NextQ == IF q + 1 < ncoils THEN q + 1 ELSE 0

\* lines 59-61: one pass of the covariance loop.
CovStep ==
    /\ pc = "cov"
    /\ Rs' = SetPlane(Rs, p, q, CovPlane(img, p, q))
    /\ IF NextP < ncoils
       THEN p' = NextP /\ q' = NextQ /\ pc' = pc
       ELSE p' = 0 /\ q' = 0 /\ pc' = "smooth"
    /\ UNCHANGED <<inputs, err, y, x, iter, R, v, lam, rho, csm, pwVars, smVars>>

\* lines 64-66: one pass of the smoothing loop; lines 71-72 when it ends.
SmoothStep ==
    /\ pc = "smooth"
    /\ Rs' = SetPlane(Rs, p, q, smooth(Plane(Rs, p, q), smoothing))
    /\ IF NextP < ncoils
       THEN p' = NextP /\ q' = NextQ /\ pc' = pc /\ UNCHANGED <<rho, csm>>
       ELSE /\ p' = 0 /\ q' = 0 /\ pc' = "pixel"
            /\ rho' = Zeros(<<ny, nx>>)
            /\ csm' = Zeros(<<ncoils, ny, nx>>)
    /\ UNCHANGED <<inputs, err, y, x, iter, R, v, lam, pwVars, smVars>>

\* line 76
StartVector(Rm, n) == SumAxis0(Rm, n)

\* Mutation of PixelStart: an undefined estimate left by the previous pixel
\* is kept instead of being overwritten.
PixelStartCarried ==
    /\ pc = "pixel"
    /\ LET Rm == LocalMatrix(Rs, ncoils, y, x)
           v0 == StartVector(Rm, ncoils)
           l0 == Norm(v0)
           carried == v # NoVector /\ \A c \in DOMAIN v : IsNaN(v[c])
       IN  /\ R' = Rm
           /\ lam' = IF carried THEN NaN ELSE l0
           /\ v' = IF carried THEN v ELSE VecDiv(v0, l0)
    /\ iter' = 0
    /\ pc' = "power"
    /\ UNCHANGED <<inputs, err, Rs, p, q, y, x, rho, csm, pwVars, smVars>>

\* lines 75-78: the start of the body of the pixel loop.
PixelStart ==
    /\ pc = "pixel"
    /\ LET Rm == LocalMatrix(Rs, ncoils, y, x)
           v0 == StartVector(Rm, ncoils)
           l0 == Norm(v0)
       IN  /\ R' = Rm
           /\ lam' = l0
           /\ v' = VecDiv(v0, l0)
    /\ iter' = 0
    /\ pc' = "power"
    /\ UNCHANGED <<inputs, err, Rs, p, q, y, x, rho, csm, pwVars, smVars>>

\* lines 80-83: one power iteration.
PowerStep ==
    /\ pc = "power"
    /\ iter < niter
    /\ LET v1 == Dot(R, v, ncoils)
           l1 == Norm(v1)
       IN  /\ lam' = l1
           /\ v' = VecDiv(v1, l1)
    /\ iter' = iter + 1
    /\ UNCHANGED <<inputs, pc, err, Rs, p, q, y, x, R, rho, csm, pwVars, smVars>>

\* lines 85-86, and line 88 after the last pixel.
PixelStore ==
    /\ pc = "power"
    /\ iter = niter
    /\ rho' = [rho EXCEPT !.data[<<y, x>>] = lam]
    /\ csm' = [csm EXCEPT !.data =
                  [idx \in DOMAIN csm.data |->
                      IF idx[2] = y /\ idx[3] = x THEN v[idx[1]] ELSE csm.data[idx]]]
    /\ IF x + 1 < nx THEN x' = x + 1 /\ y' = y /\ pc' = "pixel"
       ELSE IF y + 1 < ny THEN x' = 0 /\ y' = y + 1 /\ pc' = "pixel"
       ELSE x' = x /\ y' = y /\ pc' = "returned"
    /\ UNCHANGED <<inputs, err, Rs, p, q, iter, R, v, lam, pwVars, smVars>>

(***************************************************************************)
(* smooth, called on its own; a second call takes the first result.        *)
(***************************************************************************)
SmoothCall ==
    /\ fn = "smooth"
    /\ calls < MaxCalls
    /\ LET a == IF calls = 0 THEN img ELSE simg
       IN  /\ sarg' = a
           /\ simg' = smooth(a, smoothing)
    /\ calls' = calls + 1
    /\ pc' = "returned"
    /\ UNCHANGED <<inputs, err, csmVars, pwVars>>

InitPrewhitening ==
    /\ fn = "calculate_prewhitening"
    /\ trueDiv \in BOOLEAN
    /\ noise \in NoiseArrays
    /\ scale_factor \in 1..MaxScale
    /\ img = NoArray /\ smoothing = 1 /\ niter = 0

(***************************************************************************)
(* calculate_prewhitening(noise, scale_factor), then                       *)
(* apply_prewhitening(noise, dmtx) on its result.                          *)
(*                                                                         *)
(* noise.size/noise.shape[0] divides two ints: floor division in Python 2, *)
(* true division in Python 3, whose float result reshape rejects.          *)
(***************************************************************************)
Columns(arr) == SeqProd(arr.shape) \div arr.shape[1]

\* line 20
ReshapeNoise ==
    /\ fn = "calculate_prewhitening" /\ pc = "start"
    /\ IF trueDiv
       THEN pc' = "raised" /\ err' = "TypeError" /\ noise_int' = noise_int
       ELSE /\ pc' = "covariance" /\ err' = err
            /\ noise_int' = Reshape(noise, <<noise.shape[1], Columns(noise)>>)
    /\ UNCHANGED <<inputs, csmVars, dmtx, wdata, smVars>>

\* Mutation of NoiseCovariance: 1/(M-1) is computed as numpy would, giving
\* infinity for M = 1 and a covariance matrix of NaN.
NoiseCovarianceUnchecked ==
    /\ pc = "covariance"
    /\ pc' = "cholesky" /\ err' = err
    /\ dmtx' = IF noise_int.shape[2] - 1 = 0
               THEN Array(<<noise_int.shape[1], noise_int.shape[1]>>, LAMBDA idx : NaN)
               ELSE SampleCovariance(noise_int)
    /\ UNCHANGED <<inputs, csmVars, noise_int, wdata, smVars>>

\* lines 21-22: 1/(M-1) is a Python float division.
NoiseCovariance ==
    /\ pc = "covariance"
    /\ IF noise_int.shape[2] - 1 = 0
       THEN pc' = "raised" /\ err' = "ZeroDivisionError" /\ dmtx' = dmtx
       ELSE pc' = "cholesky" /\ err' = err /\ dmtx' = SampleCovariance(noise_int)
    /\ UNCHANGED <<inputs, csmVars, noise_int, wdata, smVars>>

\* line 23
CholeskyInverse ==
    /\ pc = "cholesky"
    /\ IF PositiveDefinite(dmtx)
       THEN pc' = "scale" /\ err' = err /\ dmtx' = Inverse(Cholesky(dmtx))
       ELSE pc' = "raised" /\ err' = "LinAlgError" /\ dmtx' = dmtx
    /\ UNCHANGED <<inputs, csmVars, noise_int, wdata, smVars>>

\* line 24
ScaleFactor(sf) == SMul(SSqrt(Cplx(2, 0)), SSqrt(Cplx(sf, 0)))

\* lines 24-25
ScaleMatrix ==
    /\ pc = "scale"
    /\ dmtx' = MatScale(ScaleFactor(scale_factor), dmtx)
    /\ pc' = "prewhitening_returned"
    /\ UNCHANGED <<inputs, err, csmVars, noise_int, wdata, smVars>>

InitApply ==
    /\ fn = "apply_prewhitening"
    /\ trueDiv \in BOOLEAN
    /\ noise \in ApplyData
    /\ scale_factor = 1
    /\ img = NoArray /\ smoothing = 1 /\ niter = 0

\* lines 36-37: apply_prewhitening(data, dmtx), with the noise as data.
ApplyPrewhitening ==
    /\ \/ fn = "calculate_prewhitening" /\ pc = "prewhitening_returned"
       \/ fn = "apply_prewhitening" /\ pc = "start"
    /\ IF trueDiv
       THEN pc' = "raised" /\ err' = "TypeError" /\ wdata' = wdata
       ELSE LET data2 == Reshape(noise, <<noise.shape[1], Columns(noise)>>)
            IN  IF dmtx.shape[2] # data2.shape[1]
                THEN pc' = "raised" /\ err' = "ValueError" /\ wdata' = wdata
                ELSE /\ pc' = "returned" /\ err' = err
                     /\ wdata' = Reshape(MatMul(dmtx, data2), noise.shape)
    /\ UNCHANGED <<inputs, csmVars, noise_int, dmtx, smVars>>

Init ==
    \/ InitLocals /\ (InitCsm \/ InitSmooth \/ InitPrewhitening)
    \/ /\ InitApply
       /\ pc = "start" /\ err = ""
       /\ Rs = NoArray /\ p = 0 /\ q = 0 /\ y = 0 /\ x = 0 /\ iter = 0
       /\ R = NoVector /\ v = NoVector /\ lam = NoNumber
       /\ rho = NoArray /\ csm = NoArray
       /\ noise_int = NoArray /\ dmtx \in ApplyMatrices /\ wdata = NoArray
       /\ sarg = NoArray /\ simg = NoArray /\ calls = 0

Next == CheckRank \/ CovStep \/ SmoothStep \/ PixelStart \/ PowerStep \/ PixelStore
          \/ SmoothCall
          \/ ReshapeNoise \/ NoiseCovariance \/ CholeskyInverse \/ ScaleMatrix
          \/ ApplyPrewhitening

Spec == Init /\ [][Next]_vars

(***************************************************************************)
(* Vocabulary of the properties.                                           *)
(***************************************************************************)
Pixels == {<<yy, xx>> : yy \in 0..(ny - 1), xx \in 0..(nx - 1)}

CsmReturned == fn = "calculate_csm_walsh" /\ pc = "returned"

\* The smoothed covariance matrix, the sensitivity vector and the power at a pixel.
CovAt(px) == LocalMatrix(Rs, ncoils, px[1], px[2])

CsmAt(px) == [c \in Coils(ncoils) |-> csm.data[<<c, px[1], px[2]>>]]

RhoAt(px) == rho.data[px]

ZeroMatrix(Rm) == \A k \in DOMAIN Rm : IsZero(Rm[k])

AllNaN(vec) == \A c \in DOMAIN vec : IsNaN(vec[c])

One == Cplx(1, 0)

\* The sum over the coils of |vec[c]|^2
Norm2(vec) == SSum([c \in DOMAIN vec |-> SAbs2(vec[c])], DOMAIN vec)

\* u = e^(i*theta) * w for some theta: equal norms, and equality in the
\* Cauchy-Schwarz inequality.
PhaseEquivalent(u, w) ==
    LET inner == SSum([c \in DOMAIN u |-> SMul(SConj(u[c]), w[c])], DOMAIN u)
    IN  /\ DOMAIN u = DOMAIN w
        /\ Norm2(u) = Norm2(w)
        /\ ~IsNaN(Norm2(w))
        /\ SAbs2(inner) = SMul(Norm2(u), Norm2(w))

\* Every number held in the state is inside the number system of the model.
NumbersRepresentable ==
    /\ \A a \in {Rs, rho, csm, noise_int, dmtx, wdata, simg} :
          \A k \in DOMAIN a.data : ~IsUnrep(a.data[k])
    /\ \A k \in DOMAIN v : ~IsUnrep(v[k])
    /\ ~IsUnrep(lam)
    /\ pc = "cholesky" =>
          \A j \in 0..(dmtx.shape[1] - 1) : ~IsUnrep(CholEntry(dmtx, j, j))

(***************************************************************************)
(* C1.  The 2-coil 4x4 stack with coil 0 equal to 1 and coil 1 equal to i  *)
(* at every pixel, default smoothing and niter: the covariance matrix is   *)
(* [[1,-i],[i,1]] at every pixel, the returned sensitivity vector is       *)
(* [1/sqrt(2), -i/sqrt(2)] up to a global phase and the power is 2.        *)
(***************************************************************************)
QuadratureStack ==
    Array(<<2, 4, 4>>, LAMBDA idx : IF idx[1] = 0 THEN Cplx(1, 0) ELSE Cplx(0, 1))

QuadratureCovariance ==
    [a \in Coils(2), b \in Coils(2) |->
        IF a = b THEN Cplx(1, 0) ELSE IF a < b THEN Cplx(0, -1) ELSE Cplx(0, 1)]

QuadratureClaimedVector ==
    [c \in Coils(2) |->
        SDiv(IF c = 0 THEN Cplx(1, 0) ELSE Cplx(0, -1), SSqrt(Cplx(2, 0)))]

QuadratureCall ==
    /\ fn = "calculate_csm_walsh" /\ img = QuadratureStack
    /\ smoothing = DefaultSmoothing /\ niter = DefaultNiter

\* C1 as stated: covariance [[1,-i],[i,1]], vector [1,-i]/sqrt(2) up to
\* phase, power 2, at every pixel of the result.
C1_QuadratureResult ==
    (QuadratureCall /\ pc = "returned") =>
        \A px \in Pixels :
            /\ CovAt(px) = QuadratureCovariance
            /\ PhaseEquivalent(CsmAt(px), QuadratureClaimedVector)
            /\ RhoAt(px) = Cplx(2, 0)

\* What the code returns there: the covariance is as claimed, the start
\* vector is the claimed vector, R annihilates it, and every value is NaN.
Lemma_QuadratureIsNaN ==
    (QuadratureCall /\ pc = "returned") =>
        \A px \in Pixels :
            /\ CovAt(px) = QuadratureCovariance
            /\ AllNaN(CsmAt(px))
            /\ IsNaN(RhoAt(px))

(***************************************************************************)
(* C2.  At every pixel whose smoothed covariance matrix is not the zero    *)
(* matrix, the returned sensitivity vector has Euclidean norm 1.           *)
(***************************************************************************)
C2_UnitNorm ==
    CsmReturned =>
        \A px \in Pixels : ~ZeroMatrix(CovAt(px)) => Norm2(CsmAt(px)) = One

\* The norm is 1 wherever no normalisation divided by zero.
Lemma_UnitNormOrNaN ==
    CsmReturned =>
        \A px \in Pixels : AllNaN(CsmAt(px)) \/ Norm2(CsmAt(px)) = One

(***************************************************************************)
(* C3.  Decorrelation round trip: for noise with M >= 2 samples and a      *)
(* positive-definite sample covariance, W = calculate_prewhitening(N, s)   *)
(* and D = apply_prewhitening(N, W) are returned and the sample covariance *)
(* of D is 2*s times the identity.                                         *)
(***************************************************************************)
AsMatrix(arr) == Reshape(arr, <<arr.shape[1], Columns(arr)>>)

\* Every pivot of the exact factorization is positive.
HermitianPositiveDefinite(A) ==
    \A j \in 0..(A.shape[1] - 1) :
        LET d == CholEntry(A, j, j) IN d.den > 0 /\ d.re > 0

ValidNoise ==
    /\ fn = "calculate_prewhitening"
    /\ Columns(noise) >= 2
    /\ HermitianPositiveDefinite(SampleCovariance(AsMatrix(noise)))

Decorrelated ==
    SampleCovariance(AsMatrix(wdata))
        = MatScale(Cplx(2 * scale_factor, 0), Identity(noise.shape[1]))

C3_DecorrelationRoundTrip ==
    (ValidNoise /\ pc \in {"returned", "raised"}) => (pc = "returned" /\ Decorrelated)

\* The round trip holds where int / int is floor division.
Lemma_DecorrelationFloorDivision ==
    (ValidNoise /\ ~trueDiv /\ pc \in {"returned", "raised"})
        => (pc = "returned" /\ Decorrelated)

(***************************************************************************)
(* C4.  Single-coil stack without zero pixel: the returned sensitivity has *)
(* magnitude 1 at every pixel and the power map equals |img[0,y,x]|^2.     *)
(***************************************************************************)
SingleCoilCall ==
    /\ fn = "calculate_csm_walsh"
    /\ Len(img.shape) = 3
    /\ ncoils = 1
    /\ \A idx \in DOMAIN img.data : ~IsZero(img.data[idx])

Power(px) == SAbs2(img.data[<<0, px[1], px[2]>>])

SmoothedPower(px) == smooth(CovPlane(img, 0, 0), smoothing).data[px]

\* C4 as stated: for every window the power map is |img|^2.
C4_SingleCoilPower ==
    (SingleCoilCall /\ pc = "returned") =>
        \A px \in Pixels :
            /\ SAbs2(csm.data[<<0, px[1], px[2]>>]) = One
            /\ RhoAt(px) = Power(px)

\* C4 amended: the sensitivity is 1 and the power map is the box mean of
\* |img|^2 over the smoothing window, which is |img|^2 for window 1.
C4_SingleCoilSmoothedPower ==
    (SingleCoilCall /\ pc = "returned") =>
        \A px \in Pixels :
            /\ csm.data[<<0, px[1], px[2]>>] = One
            /\ RhoAt(px) = SmoothedPower(px)
            /\ smoothing = 1 => RhoAt(px) = Power(px)

C4_Witness ==
    /\ SingleCoilCall /\ pc = "returned"
    /\ smoothing = DefaultSmoothing /\ niter = DefaultNiter
    /\ \E px \in Pixels : RhoAt(px) # Power(px)

(***************************************************************************)
(* C5.  smooth with window 1 returns an array of the shape of its argument *)
(* with every element unchanged, so a second call returns the result of    *)
(* the first; the argument is not modified.                                *)
(***************************************************************************)
C5_SmoothWindowOneIdentity ==
    (fn = "smooth" /\ calls >= 1) =>
        /\ simg.shape = sarg.shape
        /\ smoothing = 1 => (simg = sarg /\ sarg = img)

C5_Witness ==
    /\ fn = "smooth" /\ smoothing = 1 /\ calls = 2
    /\ Len(img.shape) = 3
    /\ \E idx \in DOMAIN img.data : img.data[idx].im # 0
    /\ \E idx \in DOMAIN img.data : img.data[idx].re # 0

(***************************************************************************)
(* C6.  calculate_prewhitening on noise with exactly 1 sample per coil     *)
(* raises the not-positive-definite error and returns no matrix.           *)
(***************************************************************************)
OneSampleCall == fn = "calculate_prewhitening" /\ Columns(noise) = 1

\* C6 as stated: the call ends with the factorization's error.
C6_OneSampleNotPositiveDefinite ==
    (OneSampleCall /\ pc \in {"returned", "prewhitening_returned", "raised"}) =>
        (pc = "raised" /\ err = "LinAlgError" /\ dmtx = NoArray)

\* C6 amended: the call ends by raising before the covariance is formed:
\* the ZeroDivisionError of 1/(M-1), or the TypeError of the reshape where
\* int / int is true division.  No matrix is ever assigned or returned.
C6_OneSampleRaises ==
    OneSampleCall =>
        /\ pc \in {"start", "covariance", "raised"}
        /\ pc = "raised" => err = (IF trueDiv THEN "TypeError" ELSE "ZeroDivisionError")
        /\ dmtx = NoArray /\ wdata = NoArray

C6_Witness ==
    /\ OneSampleCall /\ noise.shape[1] = 2
    /\ pc = "raised" /\ err = "ZeroDivisionError"

(***************************************************************************)
(* C7.  calculate_csm_walsh on an input that has not exactly 3 dimensions  *)
(* fails at the assertion, before any covariance, smoothing or eigenvector *)
(* computation, and returns nothing.                                       *)
(***************************************************************************)
C7_WrongRankFailsFirst ==
    (fn = "calculate_csm_walsh" /\ Len(img.shape) # 3) =>
        /\ pc \in {"start", "raised"}
        /\ pc = "raised" => err = "AssertionError"
        /\ Rs = NoArray /\ rho = NoArray /\ csm = NoArray
        /\ R = NoVector /\ v = NoVector

C7_Witness ==
    /\ fn = "calculate_csm_walsh" /\ Len(img.shape) = 4
    /\ pc = "raised" /\ err = "AssertionError"

(***************************************************************************)
(* C8.  The power iteration starts from the row-sum vector of R divided by *)
(* its norm, and the estimate is stored after exactly niter iterations.    *)
(***************************************************************************)
\* entry a is the sum over the second index b of R[a,b]
RowSums(Rm, n) ==
    [a \in Coils(n) |-> SSum([b \in Coils(n) |-> Rm[a, b]], Coils(n))]

C8_RowSumStart ==
    /\ (fn = "calculate_csm_walsh" /\ pc = "power" /\ iter = 0) =>
          /\ lam = Norm(RowSums(R, ncoils))
          /\ v = VecDiv(RowSums(R, ncoils), Norm(RowSums(R, ncoils)))
    /\ CsmReturned => iter = niter

\* The code starts from the column sums, the conjugate of the row sums.
Lemma_ColumnSumStart ==
    (fn = "calculate_csm_walsh" /\ pc = "power" /\ iter = 0) =>
        /\ lam = Norm(SumAxis0(R, ncoils))
        /\ v = VecDiv(SumAxis0(R, ncoils), Norm(SumAxis0(R, ncoils)))
        /\ \A c \in Coils(ncoils) :
              SumAxis0(R, ncoils)[c] = SConj(RowSums(R, ncoils)[c])

(***************************************************************************)
(* C9.  The covariance field is Hermitian in (p,q) at every pixel before   *)
(* and after smoothing, for every window; during the smoothing loop every  *)
(* pair of planes that are both smoothed or both unsmoothed is.            *)
(***************************************************************************)
Smoothed(a, b) == pc # "smooth" \/ a < p \/ (a = p /\ b < q)

C9_CovarianceHermitian ==
    (fn = "calculate_csm_walsh" /\ pc \in {"smooth", "pixel", "power", "returned"}) =>
        \A a \in Coils(ncoils), b \in Coils(ncoils) :
            (Smoothed(a, b) <=> Smoothed(b, a)) =>
                \A px \in Pixels :
                    Rs.data[<<a, b, px[1], px[2]>>]
                        = SConj(Rs.data[<<b, a, px[1], px[2]>>])

C9_Witness ==
    /\ CsmReturned /\ ncoils = 2 /\ smoothing = DefaultSmoothing
    /\ \E px \in Pixels : Rs.data[<<0, 1, px[1], px[2]>>].im # 0
    /\ \E px \in Pixels : Rs.data[<<0, 1, px[1], px[2]>>].den > 1

(***************************************************************************)
(* C10.  A pixel whose smoothed covariance matrix is zero does not make    *)
(* the call raise; its sensitivity vector and power are NaN, and every     *)
(* pixel's result depends on its own smoothed covariance matrix only.      *)
(***************************************************************************)
OwnMatrixOnly ==
    \A px \in Pixels, py \in Pixels :
        CovAt(px) = CovAt(py) => (CsmAt(px) = CsmAt(py) /\ RhoAt(px) = RhoAt(py))

\* C10 as stated: the power value at a zero pixel is NaN.
C10_ZeroPixelNaN ==
    /\ fn = "calculate_csm_walsh" /\ Len(img.shape) = 3 => pc # "raised"
    /\ CsmReturned =>
          /\ \A px \in Pixels :
                ZeroMatrix(CovAt(px)) => (AllNaN(CsmAt(px)) /\ IsNaN(RhoAt(px)))
          /\ OwnMatrixOnly

\* C10 amended: the power value at a zero pixel is NaN for niter >= 1 and
\* 0 for niter = 0 (the norm of the zero start vector, stored as it is).
C10_ZeroPixelUndefined ==
    /\ fn = "calculate_csm_walsh" /\ Len(img.shape) = 3 => pc # "raised"
    /\ CsmReturned =>
          /\ \A px \in Pixels :
                ZeroMatrix(CovAt(px)) =>
                    /\ AllNaN(CsmAt(px))
                    /\ RhoAt(px) = (IF niter = 0 THEN Zero ELSE NaN)
          /\ OwnMatrixOnly

C10_Witness ==
    /\ CsmReturned /\ niter >= 1
    /\ \E px \in Pixels, py \in Pixels, pz \in Pixels :
          /\ ZeroMatrix(CovAt(px)) /\ IsNaN(RhoAt(px))
          /\ px[1] < py[1] /\ CovAt(py) = CovAt(pz) /\ pz # py
          /\ Norm2(CsmAt(py)) = One

====
